---- MODULE Spec2Model ----
(***************************************************************************)
(* Model of src/test-suite.js: class BritEdgeTestSuite, a smoke-test       *)
(* harness that issues HTTP GET requests, applies a predicate to every     *)
(* response and appends one entry per assertion group to this.results.     *)
(*                                                                         *)
(* JavaScript values are tagged records (JNull, JNum, JStr, JArr, JObj),   *)
(* so that property access, truthiness and the TypeError raised by a       *)
(* property access on null/undefined are computed as the runtime computes  *)
(* them.  Strings that the code searches (header values, the HTML body,    *)
(* the website URL) are sequences of tokens; String.includes is contiguous *)
(* subsequence, String.startsWith is prefix.  Messages are built with the  *)
(* same template strings as the source.                                    *)
(***************************************************************************)
EXTENDS Integers, Sequences, FiniteSets, TLC

VARIABLES pc, results, idx, validResponses, now, returned, responses, faults, env

vars == <<pc, results, idx, validResponses, now, returned, responses, faults, env>>

(***************************************************************************)
(* Bounds                                                                  *)
(***************************************************************************)
MaxLog == 4
MaxSummaryCalls == 2
MaxTime == 1

(***************************************************************************)
(* JavaScript values                                                       *)
(***************************************************************************)
Undefined == [t |-> "undefined"]
JNull == [t |-> "null"]
JNum(n) == [t |-> "num", n |-> n]
JStr(s) == [t |-> "str", s |-> s]
JArr(a) == [t |-> "arr", a |-> a]
JObj(o) == [t |-> "obj", o |-> o]
\* a string the code searches: its tokens
JText(tokens) == [t |-> "text", tokens |-> tokens]

\* ToBoolean: what `&&` and `if` test.  Arrays and objects are truthy.
Truthy(v) ==
  CASE v.t = "undefined" -> FALSE
    [] v.t = "null" -> FALSE
    [] v.t = "num" -> v.n # 0
    [] v.t = "str" -> v.s # ""
    [] v.t = "text" -> v.tokens # <<>>
    [] v.t = "arr" -> TRUE
    [] v.t = "obj" -> TRUE

\* v.f raises a TypeError exactly when v is null or undefined.
ThrowsOnAccess(v) == v.t \in {"undefined", "null"}

\* v.f for a v that is not null/undefined: the field of an object, the
\* length of an array, undefined for everything else (string values occur
\* only as leaves of the payloads drawn here, never as the receiver of
\* .length).
Get(v, f) ==
  IF v.t = "obj" /\ f \in DOMAIN v.o THEN v.o[f]
  ELSE IF v.t = "arr" /\ f = "length" THEN JNum(Len(v.a))
  ELSE Undefined

\* v[0]
First(v) == IF v.t = "arr" /\ Len(v.a) > 0 THEN v.a[1] ELSE Undefined

\* v > 0 for v a number or undefined (undefined > 0 is false)
GreaterThanZero(v) == v.t = "num" /\ v.n > 0

\* typeof v === 'object' (arrays and null are 'object')
TypeofObject(v) == v.t \in {"obj", "arr", "null"}

\* V8's message of the TypeError raised by v.f
TypeErrorMessage(v, f) ==
  "Cannot read properties of " \o v.t \o " (reading '" \o f \o "')"

(***************************************************************************)
(* Searched strings: sequences of tokens                                   *)
(***************************************************************************)
\* String.prototype.includes
Includes(s, sub) ==
  \E i \in 1..(Len(s) - Len(sub) + 1) : SubSeq(s, i, i + Len(sub) - 1) = sub

\* String.prototype.startsWith
StartsWith(s, prefix) ==
  Len(s) >= Len(prefix) /\ SubSeq(s, 1, Len(prefix)) = prefix

\* the text of a token string, as a template literal embeds it
RECURSIVE Join(_)
Join(s) == IF s = <<>> THEN "" ELSE Head(s) \o Join(Tail(s))

(***************************************************************************)
(* constructor                                                             *)
(***************************************************************************)
baseURL == <<"https://", "func-britedge-assignment.azurewebsites.net", "/api">>
websiteURL == <<"https://", "thankful-sand-085c06103.2.azurestaticapps.net">>
startTime == 0

(***************************************************************************)
(* logResult                                                               *)
(***************************************************************************)
Status(passed) == IF passed THEN "PASS" ELSE "FAIL"

\* time is the clock when logResult runs (new Date())
Result(testName, passed, message, time, data) ==
  [test |-> testName, status |-> Status(passed), message |-> message,
   timestamp |-> time, data |-> data]

\* this.results.push(result)
logResult(rs, testName, passed, message, time, data) ==
  Append(rs, Result(testName, passed, message, time, data))

(***************************************************************************)
(* generateSummary                                                         *)
(***************************************************************************)
IsPass(r) == r.status = "PASS"
IsFail(r) == r.status = "FAIL"

ToFixed0(tenths) == ToString((tenths + 5) \div 10)

\* Number.prototype.toFixed(1) of a non-negative number given in tenths
ToFixed1(tenths) == ToString(tenths \div 10) \o "." \o ToString(tenths % 10)

\* ((passedTests / totalTests) * 100).toFixed(1): 0/0 is NaN and
\* NaN.toFixed(1) is "NaN"; otherwise the quotient rounded to one decimal,
\* halves up.
SuccessRate(passedTests, totalTests) ==
  IF totalTests = 0 THEN "NaN"
  ELSE ToFixed1((passedTests * 2000 + totalTests) \div (2 * totalTests))

\* this.results.filter(r => r.status === 'FAIL'), one console line each
FailedLine(r) == "  - " \o r.test \o ": " \o r.message

RECURSIVE FailedListing(_)
FailedListing(rs) ==
  IF rs = <<>> THEN <<>>
  ELSE IF IsFail(Head(rs))
       THEN <<FailedLine(Head(rs))>> \o FailedListing(Tail(rs))
       ELSE FailedListing(Tail(rs))

PassedTests(rs) == Len(SelectSeq(rs, IsPass))

Summary(rs) ==
  LET totalTests == Len(rs)
      passedTests == PassedTests(rs)
      failedTests == totalTests - passedTests
  IN [total |-> totalTests,
      passed |-> passedTests,
      failed |-> failedTests,
      successRate |-> SuccessRate(passedTests, totalTests),
      executionTime |-> now - startTime]

\* What one call of generateSummary produces: the returned summary, the
\* failed-test lines it printed (printed only if failedTests > 0) and the
\* length of the log it was computed from.
SummaryCall(rs) ==
  [summary |-> Summary(rs),
   listing |-> IF Summary(rs).failed > 0 THEN FailedListing(rs) ELSE <<>>,
   logLen |-> Len(rs)]

\* generateSummary leaves this.results as it is
ResultsAfterSummaryDropped(rs) == SelectSeq(rs, IsPass)

ResultsAfterSummary(rs) == rs

generateSummary ==
  /\ Len(returned) < MaxSummaryCalls
  /\ returned' = Append(returned, SummaryCall(results))
  /\ results' = ResultsAfterSummary(results)

(***************************************************************************)
(* The deployment under test: which accepted Access-Control-Allow-Origin   *)
(* value the API sends, which navigation marker the page carries and how   *)
(* long a request takes.                                                   *)
(***************************************************************************)
HealthyEnvs ==
  [cors : {<<"*">>, websiteURL}, nav : {"nav-link", "navigation"}, delay : {0, 1999}]

DefaultEnv == [cors |-> <<"*">>, nav |-> "nav-link", delay |-> 0]

(***************************************************************************)
(* Init: a constructed suite, nothing run yet                              *)
(***************************************************************************)
Init ==
  /\ pc = "ready"
  /\ results = <<>>
  /\ idx = 1
  /\ validResponses = 0
  /\ now = 0
  /\ returned = <<>>
  /\ responses = <<>>
  /\ faults = 0
  /\ env = DefaultEnv

(***************************************************************************)
(* HTTP responses.  fetch either rejects (network/transport failure) or    *)
(* resolves with a status, headers and a body; response.json() throws a    *)
(* SyntaxError on a body that is not JSON.                                 *)
(***************************************************************************)
FetchError == "Failed to fetch"
ParseError == "Unexpected token < in JSON at position 0"

Reject(delay) == [fetch |-> "reject", error |-> FetchError, delay |-> delay]

JsonBody(v) == [kind |-> "json", value |-> v]
TextBody(tokens) == [kind |-> "text", tokens |-> tokens]

Response(status, headers, body, delay) ==
  [fetch |-> "ok", status |-> status, headers |-> headers, body |-> body,
   delay |-> delay]

\* response.headers.get(name): the value, or null when the header is absent
HeaderGet(headers, name) ==
  IF name \in DOMAIN headers THEN JText(headers[name]) ELSE JNull

\* what a try block evaluates to: the arguments of its one logResult call
Outcome(passed, message, data) ==
  [passed |-> passed, message |-> message, data |-> data, threw |-> FALSE]

\* the catch block: one logResult(name, false, prefix + error.message)
Caught(prefix, errorMessage) ==
  [passed |-> FALSE, message |-> prefix \o errorMessage, data |-> JNull,
   threw |-> TRUE]

(***************************************************************************)
(* testGetBritEdgeInfo                                                     *)
(***************************************************************************)
InfoOutcome(resp) ==
  IF resp.fetch = "reject"
  THEN Caught("Network error: ", resp.error)
  ELSE IF resp.body.kind # "json"
  THEN Caught("Network error: ", ParseError)
  ELSE LET data == resp.body.value IN
    IF resp.status = 200
    THEN IF ThrowsOnAccess(data)
         THEN Caught("Network error: ", TypeErrorMessage(data, "company"))
         ELSE LET company == Get(data, "company")
                  hasCompany == Truthy(company) /\ Truthy(Get(company, "name"))
                  stats == Get(data, "stats")
                  hasStats == Truthy(stats) /\ Get(stats, "totalEmployees").t = "num"
                  locations == Get(data, "locations")
                  hasLocations == locations.t = "arr" /\ Len(locations.a) > 0
              IN IF hasCompany /\ hasStats /\ hasLocations
                 THEN Outcome(TRUE,
                        "Valid company data returned ("
                          \o ToString(Get(stats, "totalEmployees").n) \o " employees, "
                          \o ToString(Len(locations.a)) \o " locations)", JNull)
                 ELSE Outcome(FALSE, "Invalid response structure", data)
    ELSE Outcome(FALSE, "HTTP " \o ToString(resp.status) \o " error", JNull)

(***************************************************************************)
(* testGetTestimonials / testGetCustomers: the same routine over           *)
(* data.testimonials[0].{client, rating} and                               *)
(* data.customers[0].{customerId, companyName}                             *)
(***************************************************************************)
ListOutcome(resp, field, f1, f2) ==
  IF resp.fetch = "reject"
  THEN Caught("Network error: ", resp.error)
  ELSE IF resp.body.kind # "json"
  THEN Caught("Network error: ", ParseError)
  ELSE LET data == resp.body.value IN
    IF resp.status = 200
    THEN IF ThrowsOnAccess(data)
         THEN Caught("Network error: ", TypeErrorMessage(data, field))
         ELSE LET list == Get(data, field)
                  hasList == list.t = "arr"
                  nonEmpty == Truthy(list) /\ GreaterThanZero(Get(list, "length"))
                  first == First(list)
              IN IF nonEmpty /\ ThrowsOnAccess(first)
                 THEN Caught("Network error: ", TypeErrorMessage(first, f1))
                 ELSE LET hasValidStructure ==
                            /\ nonEmpty
                            /\ Truthy(Get(first, f1))
                            /\ Truthy(Get(first, f2))
                      IN IF hasList /\ hasValidStructure
                         THEN Outcome(TRUE, ToString(Len(list.a)) \o " " \o field
                                \o " returned with valid structure", JNull)
                         ELSE Outcome(FALSE, "Invalid " \o field \o " structure", data)
    ELSE Outcome(FALSE, "HTTP " \o ToString(resp.status) \o " error", JNull)

TestimonialsOutcome(resp) == ListOutcome(resp, "testimonials", "client", "rating")

CustomersOutcome(resp) == ListOutcome(resp, "customers", "customerId", "companyName")

\* A check that makes one request and one logResult call; ret is where the
\* caller continues.
RecordUnlessThrew(testName, o, time) ==
  results' = IF o.threw THEN results
             ELSE logResult(results, testName, o.passed, o.message, time, o.data)

Record(testName, o, time) ==
  results' = logResult(results, testName, o.passed, o.message, time, o.data)

\* the catch block absorbs the error: the routine returns normally and the
\* caller continues at ret
ContinueRethrow(o, ret) == IF o.threw THEN "aborted" ELSE ret

Continue(o, ret) == ret

Enter(method) ==
  /\ pc' = method
  /\ idx' = 1
  /\ validResponses' = 0

\* await fetch(url): the clock advances by the time the request took
Fetch(resp) ==
  /\ responses' = <<resp>>
  /\ now' = now + resp.delay

testGetBritEdgeInfo(resp, ret) ==
  /\ Record("API: GetBritEdgeInfo", InfoOutcome(resp), now + resp.delay)
  /\ Fetch(resp)
  /\ Enter(Continue(InfoOutcome(resp), ret))

testGetTestimonials(resp, ret) ==
  /\ Record("API: GetTestimonials", TestimonialsOutcome(resp), now + resp.delay)
  /\ Fetch(resp)
  /\ Enter(Continue(TestimonialsOutcome(resp), ret))

testGetCustomers(resp, ret) ==
  /\ Record("API: GetCustomers", CustomersOutcome(resp), now + resp.delay)
  /\ Fetch(resp)
  /\ Enter(Continue(CustomersOutcome(resp), ret))

(***************************************************************************)
(* The API under test: payloads                                            *)
(***************************************************************************)
NoHeaders == <<>>

InfoHealthy ==
  JObj([company |-> JObj([name |-> JStr("BritEdge Solutions")]),
        stats |-> JObj([totalEmployees |-> JNum(250)]),
        locations |-> JArr(<<JStr("Birmingham"), JStr("Leeds")>>)])

InfoPayloads ==
  { InfoHealthy,
    JNull,
    JNum(5),
    JObj(<<>>),
    JArr(<<>>),
    JObj([company |-> JObj([name |-> JStr("BritEdge Solutions")]),
          stats |-> JObj([totalEmployees |-> JNum(250)])]),
    JObj([company |-> JObj([name |-> JStr("BritEdge Solutions")]),
          stats |-> JObj([totalEmployees |-> JNum(250)]),
          locations |-> JArr(<<>>)]),
    JObj([company |-> JObj([name |-> JStr("BritEdge Solutions")]),
          stats |-> JObj([totalEmployees |-> JStr("250")]),
          locations |-> JArr(<<JStr("Birmingham")>>)]),
    JObj([company |-> JObj(<<>>),
          stats |-> JNull,
          locations |-> JArr(<<JStr("Birmingham")>>)]) }

ListItem(f1, v1, f2, v2) == JObj((f1 :> v1) @@ (f2 :> v2))

ListPayload(field, items) == JObj(field :> items)

TestimonialsHealthy ==
  ListPayload("testimonials",
    JArr(<<ListItem("client", JStr("Acme"), "rating", JNum(5)),
           ListItem("client", JStr("Globex"), "rating", JNum(4))>>))

CustomersHealthy ==
  ListPayload("customers",
    JArr(<<ListItem("customerId", JNum(1), "companyName", JStr("Acme"))>>))

ListPayloads(field, f1, v1, f2, v2) ==
  { ListPayload(field, JArr(<<ListItem(f1, v1, f2, v2)>>)),
    JNull,
    JNum(5),
    JObj(<<>>),
    ListPayload(field, JNull),
    ListPayload(field, JArr(<<>>)),
    ListPayload(field, JArr(<<JNull>>)),
    ListPayload(field, JArr(<<JObj(f1 :> v1)>>)),
    ListPayload(field, JObj(f1 :> v1)) }

TestimonialsPayloads ==
  {TestimonialsHealthy} \cup ListPayloads("testimonials", "client", JStr("Acme"), "rating", JNum(5))

CustomersPayloads ==
  {CustomersHealthy} \cup ListPayloads("customers", "customerId", JNum(1), "companyName", JStr("Acme"))

Statuses == {200, 500}

ApiResponses(payloads) ==
  {Reject(0)}
    \cup {Response(s, NoHeaders, TextBody(<<"<html>">>), 0) : s \in Statuses}
    \cup {Response(s, NoHeaders, JsonBody(p), 0) : s \in Statuses, p \in payloads}

(***************************************************************************)
(* testSecurityHeaders                                                     *)
(***************************************************************************)
securityTests ==
  << [name |-> "X-Frame-Options", expected |-> JText(<<"DENY">>), contains |-> Undefined],
     [name |-> "X-Content-Type-Options", expected |-> JText(<<"nosniff">>), contains |-> Undefined],
     [name |-> "X-XSS-Protection", expected |-> JText(<<"1; mode=block">>), contains |-> Undefined],
     [name |-> "Strict-Transport-Security", expected |-> Undefined, contains |-> JText(<<"max-age=">>)] >>

HeaderMatchesBySubstring(test, headerValue) ==
  \/ /\ Truthy(test.expected)
     /\ Truthy(headerValue)
     /\ Includes(headerValue.tokens, test.expected.tokens)
  \/ /\ Truthy(test.contains)
     /\ Truthy(headerValue)
     /\ Includes(headerValue.tokens, test.contains.tokens)

\* the forEach body: does this header count
HeaderMatches(test, headerValue) ==
  \/ Truthy(test.expected) /\ headerValue = test.expected
  \/ /\ ~(Truthy(test.expected) /\ headerValue = test.expected)
     /\ Truthy(test.contains)
     /\ Truthy(headerValue)
     /\ Includes(headerValue.tokens, test.contains.tokens)

PassedHeaders(headers) ==
  Cardinality({i \in 1..Len(securityTests) :
                 HeaderMatches(securityTests[i], HeaderGet(headers, securityTests[i].name))})

HeadersOutcome(resp) ==
  IF resp.fetch = "reject"
  THEN Caught("Error checking headers: ", resp.error)
  ELSE LET passedHeaders == PassedHeaders(resp.headers)
           allPassed == passedHeaders = Len(securityTests)
       IN Outcome(allPassed,
            ToString(passedHeaders) \o "/" \o ToString(Len(securityTests))
              \o " security headers correctly configured", JNull)

testSecurityHeaders(resp, ret) ==
  /\ Record("Security: Headers", HeadersOutcome(resp), now + resp.delay)
  /\ Fetch(resp)
  /\ Enter(Continue(HeadersOutcome(resp), ret))

(***************************************************************************)
(* testHTTPS: no request                                                   *)
(***************************************************************************)
HTTPSOutcome ==
  LET httpsTest == StartsWith(websiteURL, <<"https://">>)
  IN Outcome(httpsTest,
       IF httpsTest THEN "Website uses HTTPS encryption" ELSE "Website not using HTTPS",
       JNull)

testHTTPS(ret) ==
  /\ Record("Security: HTTPS", HTTPSOutcome, now)
  /\ responses' = <<>>
  /\ now' = now
  /\ Enter(Continue(HTTPSOutcome, ret))

(***************************************************************************)
(* testCORS                                                                *)
(***************************************************************************)
CORSOutcome(resp) ==
  IF resp.fetch = "reject"
  THEN Caught("CORS test failed: ", resp.error)
  ELSE LET corsHeader == HeaderGet(resp.headers, "Access-Control-Allow-Origin")
           corsConfigured == corsHeader = JText(<<"*">>) \/ corsHeader = JText(websiteURL)
       IN Outcome(corsConfigured,
            IF corsConfigured
            THEN "CORS properly configured: " \o Join(corsHeader.tokens)
            ELSE "CORS not configured correctly", JNull)

testCORS(resp, ret) ==
  /\ Record("Security: CORS", CORSOutcome(resp), now + resp.delay)
  /\ Fetch(resp)
  /\ Enter(Continue(CORSOutcome(resp), ret))

(***************************************************************************)
(* testResponseTimes: one loop iteration per step                          *)
(***************************************************************************)
endpoints == <<"Website", "GetBritEdgeInfo API", "GetTestimonials API", "GetCustomers API">>

SlowThresholdInclusive(responseTime) == responseTime <= 2000

\* const isGood = responseTime < 2000
IsGood(responseTime) == responseTime < 2000

ResponseTimeOutcome(resp) ==
  IF resp.fetch = "reject"
  THEN Caught("Failed to test response time: ", resp.error)
  ELSE LET responseTime == (now + resp.delay) - now
           isGood == IsGood(responseTime)
       IN Outcome(isGood,
            "Response time: " \o ToString(responseTime) \o "ms "
              \o (IF isGood THEN "(Good)" ELSE "(Slow)"), JNull)

testResponseTimes(resp, ret) ==
  /\ idx \in 1..Len(endpoints)
  /\ Record("Performance: " \o endpoints[idx], ResponseTimeOutcome(resp), now + resp.delay)
  /\ responses' = Append(IF idx = 1 THEN <<>> ELSE responses, resp)
  /\ now' = now + resp.delay
  /\ validResponses' = 0
  /\ IF idx < Len(endpoints)
     THEN /\ idx' = idx + 1
          /\ pc' = Continue(ResponseTimeOutcome(resp), pc)
     ELSE /\ idx' = 1
          /\ pc' = Continue(ResponseTimeOutcome(resp), ret)

(***************************************************************************)
(* testWebsiteNavigation                                                   *)
(***************************************************************************)
NavigationOutcome(resp) ==
  IF resp.fetch = "reject"
  THEN Caught("Website functionality test failed: ", resp.error)
  ELSE LET html == resp.body.tokens
           hasNavigation == Includes(html, <<"nav-link">>) \/ Includes(html, <<"navigation">>)
           hasContent == Includes(html, <<"BritEdge">>) /\ Includes(html, <<"Manufacturing">>)
           hasTailwind == Includes(html, <<"tailwindcss">>)
           functionalityScore ==
             Cardinality({b \in {<<1, hasNavigation>>, <<2, hasContent>>, <<3, hasTailwind>>} : b[2]})
       IN Outcome(functionalityScore = 3,
            "Website functionality check: " \o ToString(functionalityScore)
              \o "/3 elements found", JNull)

testWebsiteNavigation(resp, ret) ==
  /\ Record("Functionality: Website", NavigationOutcome(resp), now + resp.delay)
  /\ Fetch(resp)
  /\ Enter(Continue(NavigationOutcome(resp), ret))

(***************************************************************************)
(* testJSONResponses: one loop iteration per step; the iteration over the  *)
(* last endpoint also makes the one logResult call after the loop          *)
(***************************************************************************)
apiEndpoints == <<"GetBritEdgeInfo", "GetTestimonials", "GetCustomers">>

IsValidJSONOrNull(resp) ==
  /\ resp.fetch = "ok"
  /\ resp.body.kind = "json"
  /\ TypeofObject(resp.body.value)

\* the try body reaches validResponses++ and takes it
IsValidJSON(resp) ==
  /\ resp.fetch = "ok"
  /\ resp.body.kind = "json"
  /\ TypeofObject(resp.body.value) /\ resp.body.value # JNull

JSONOutcome(count) ==
  LET allValid == count = Len(apiEndpoints)
  IN Outcome(allValid,
       ToString(count) \o "/" \o ToString(Len(apiEndpoints))
         \o " APIs return valid JSON", JNull)

testJSONResponses(resp, ret) ==
  /\ idx \in 1..Len(apiEndpoints)
  /\ responses' = Append(IF idx = 1 THEN <<>> ELSE responses, resp)
  /\ now' = now + resp.delay
  /\ LET count == validResponses + (IF IsValidJSON(resp) THEN 1 ELSE 0)
     IN IF idx < Len(apiEndpoints)
        THEN /\ idx' = idx + 1
             /\ validResponses' = count
             /\ results' = results
             /\ pc' = pc
        ELSE /\ Record("Functionality: JSON APIs", JSONOutcome(count), now + resp.delay)
             /\ Enter(Continue(JSONOutcome(count), ret))

(***************************************************************************)
(* SpecApi: a host calls the three API checks directly                     *)
(***************************************************************************)
MaxApiCalls == 2

CallTestGetBritEdgeInfo ==
  /\ pc = "ready"
  /\ Len(results) < MaxApiCalls
  /\ \E resp \in ApiResponses(InfoPayloads) : testGetBritEdgeInfo(resp, "ready")
  /\ UNCHANGED <<returned, faults, env>>

CallTestGetTestimonials ==
  /\ pc = "ready"
  /\ Len(results) < MaxApiCalls
  /\ \E resp \in ApiResponses(TestimonialsPayloads) : testGetTestimonials(resp, "ready")
  /\ UNCHANGED <<returned, faults, env>>

CallTestGetCustomers ==
  /\ pc = "ready"
  /\ Len(results) < MaxApiCalls
  /\ \E resp \in ApiResponses(CustomersPayloads) : testGetCustomers(resp, "ready")
  /\ UNCHANGED <<returned, faults, env>>

NextApi == CallTestGetBritEdgeInfo \/ CallTestGetTestimonials \/ CallTestGetCustomers

SpecApi == Init /\ [][NextApi]_vars

(***************************************************************************)
(* SpecSecurity: a host calls the three security checks directly           *)
(***************************************************************************)
MaxSecurityCalls == 1

HeaderNames == {securityTests[i].name : i \in 1..Len(securityTests)}

HeaderValues(name) ==
  CASE name = "X-Frame-Options" -> {<<"DENY">>, <<"SAMEORIGIN">>, <<"DENY", ", SAMEORIGIN">>}
    [] name = "X-Content-Type-Options" -> {<<"nosniff">>, <<"none">>}
    [] name = "X-XSS-Protection" -> {<<"1; mode=block">>, <<"0">>}
    [] name = "Strict-Transport-Security" ->
         {<<"max-age=", "31536000">>, <<"includeSubDomains; ", "max-age=", "0">>,
          <<"includeSubDomains">>, <<>>}

AllHeaderValues == UNION {HeaderValues(n) : n \in HeaderNames}

\* every assignment of a value, or of absence, to the four headers
HeaderAssignments ==
  {h \in UNION {[D -> AllHeaderValues] : D \in SUBSET HeaderNames} :
     \A n \in DOMAIN h : h[n] \in HeaderValues(n)}

HealthyHeaders ==
  [n \in HeaderNames |->
     CASE n = "X-Frame-Options" -> <<"DENY">>
       [] n = "X-Content-Type-Options" -> <<"nosniff">>
       [] n = "X-XSS-Protection" -> <<"1; mode=block">>
       [] n = "Strict-Transport-Security" -> <<"max-age=", "31536000">>]

HealthyHtml(e) ==
  <<"<a class=", e.nav, ">", "BritEdge", " Solutions ", "Manufacturing", "cdn.", "tailwindcss">>

HeaderResponses ==
  {Reject(0)} \cup {Response(200, h, TextBody(HealthyHtml(DefaultEnv)), 0) : h \in HeaderAssignments}

CorsHeader(v) == "Access-Control-Allow-Origin" :> v

CORSResponses ==
  {Reject(0), Response(200, NoHeaders, JsonBody(InfoHealthy), 0)}
    \cup {Response(200, CorsHeader(v), JsonBody(InfoHealthy), 0) :
            v \in {<<"*">>, websiteURL, <<"https://", "evil.example">>, <<"*", ", ", "*">>}}

CallTestSecurityHeaders ==
  /\ pc = "ready"
  /\ Len(results) < MaxSecurityCalls
  /\ \E resp \in HeaderResponses : testSecurityHeaders(resp, "ready")
  /\ UNCHANGED <<returned, faults, env>>

CallTestHTTPS ==
  /\ pc = "ready"
  /\ Len(results) < MaxSecurityCalls
  /\ testHTTPS("ready")
  /\ UNCHANGED <<returned, faults, env>>

CallTestCORS ==
  /\ pc = "ready"
  /\ Len(results) < MaxSecurityCalls
  /\ \E resp \in CORSResponses : testCORS(resp, "ready")
  /\ UNCHANGED <<returned, faults, env>>

NextSecurity == CallTestSecurityHeaders \/ CallTestHTTPS \/ CallTestCORS

SpecSecurity == Init /\ [][NextSecurity]_vars

(***************************************************************************)
(* SpecJson: a host calls testJSONResponses directly                       *)
(***************************************************************************)
MaxJsonCalls == 1

HealthyPayload(endpoint) ==
  CASE endpoint = "GetBritEdgeInfo" -> InfoHealthy
    [] endpoint = "GetTestimonials" -> TestimonialsHealthy
    [] endpoint = "GetCustomers" -> CustomersHealthy

JSONResponses(endpoint) ==
  {Reject(0),
   Response(200, NoHeaders, TextBody(<<"<html>">>), 0),
   Response(200, NoHeaders, JsonBody(JNull), 0),
   Response(200, NoHeaders, JsonBody(JNum(5)), 0),
   Response(200, NoHeaders, JsonBody(JArr(<<>>)), 0),
   Response(200, NoHeaders, JsonBody(HealthyPayload(endpoint)), 0),
   Response(500, NoHeaders, JsonBody(JObj([error |-> JStr("boom")])), 0)}

CallTestJSONResponses ==
  /\ pc = "ready"
  /\ Len(results) < MaxJsonCalls
  /\ Enter("testJSONResponses")
  /\ UNCHANGED <<results, now, returned, responses, faults, env>>

StepTestJSONResponses ==
  /\ pc = "testJSONResponses"
  /\ \E resp \in JSONResponses(apiEndpoints[idx]) : testJSONResponses(resp, "ready")
  /\ UNCHANGED <<returned, faults, env>>

NextJson == CallTestJSONResponses \/ StepTestJSONResponses

SpecJson == Init /\ [][NextJson]_vars

(***************************************************************************)
(* SpecPerf: a host calls testResponseTimes directly                       *)
(***************************************************************************)
MaxPerfCalls == 1

PerfResponses ==
  {Reject(0)} \cup
  {Response(200, NoHeaders, TextBody(<<"ok">>), d) : d \in {1999, 2000, 2500}}

CallTestResponseTimes ==
  /\ pc = "ready"
  /\ Len(results) < MaxPerfCalls * Len(endpoints)
  /\ Enter("testResponseTimes")
  /\ UNCHANGED <<results, now, returned, responses, faults, env>>

StepTestResponseTimes ==
  /\ pc = "testResponseTimes"
  /\ \E resp \in PerfResponses : testResponseTimes(resp, "ready")
  /\ UNCHANGED <<returned, faults, env>>

NextPerf == CallTestResponseTimes \/ StepTestResponseTimes

SpecPerf == Init /\ [][NextPerf]_vars

(***************************************************************************)
(* runAllTests: the fixed sequence, then generateSummary                   *)
(***************************************************************************)
MaxFaults == 2

RunOrderPerformanceFirst ==
  <<"testGetBritEdgeInfo", "testGetTestimonials", "testGetCustomers", "testJSONResponses",
    "testResponseTimes", "testSecurityHeaders", "testHTTPS", "testCORS",
    "testWebsiteNavigation", "generateSummary", "done">>

RunOrder ==
  <<"testGetBritEdgeInfo", "testGetTestimonials", "testGetCustomers", "testJSONResponses",
    "testSecurityHeaders", "testHTTPS", "testCORS",
    "testResponseTimes",
    "testWebsiteNavigation", "generateSummary", "done">>

\* the statement that follows `await this.method()` in runAllTests
After(method) ==
  RunOrder[(CHOOSE i \in 1..Len(RunOrder) : RunOrder[i] = method) + 1]

HealthyWebsite(e) == Response(200, HealthyHeaders, TextBody(HealthyHtml(e)), e.delay)

HealthyApi(e, endpoint) ==
  Response(200, CorsHeader(e.cors), JsonBody(HealthyPayload(endpoint)), e.delay)

\* the ways one request of a run can go wrong, per check
FaultyApi(e, endpoint) ==
  {Reject(0),
   Response(200, CorsHeader(e.cors), TextBody(<<"<html>">>), e.delay),
   Response(500, CorsHeader(e.cors), JsonBody(HealthyPayload(endpoint)), e.delay),
   Response(200, CorsHeader(e.cors), JsonBody(JObj(<<>>)), e.delay),
   Response(200, CorsHeader(e.cors), JsonBody(JNull), e.delay)}

FaultyJson(e, endpoint) ==
  {Reject(0),
   Response(200, CorsHeader(e.cors), TextBody(<<"<html>">>), e.delay),
   Response(200, CorsHeader(e.cors), JsonBody(JNull), e.delay)}

FaultyHeaders(e) ==
  {Reject(0),
   Response(200, [n \in {"X-Frame-Options", "Strict-Transport-Security"} |-> HealthyHeaders[n]],
            TextBody(HealthyHtml(e)), e.delay)}

FaultyCors(e) ==
  {Reject(0), Response(200, NoHeaders, JsonBody(InfoHealthy), e.delay)}

FaultyPerf(e) ==
  {Reject(0), Response(200, NoHeaders, TextBody(<<"ok">>), 2500)}

FaultyNavigation(e) ==
  {Reject(0),
   Response(200, HealthyHeaders, TextBody(<<e.nav, "BritEdge", "Manufacturing">>), e.delay)}

\* a request of the run gets the healthy response, or a faulty one while
\* the run's fault budget lasts
Served(resp, healthy, faulty) ==
  \/ resp = healthy /\ faults' = faults
  \/ resp \in faulty /\ faults < MaxFaults /\ faults' = faults + 1

RunAllTests ==
  /\ pc = "ready"
  /\ Enter(RunOrder[1])
  /\ env' \in HealthyEnvs
  /\ UNCHANGED <<results, now, returned, responses, faults>>

RunTestGetBritEdgeInfo ==
  /\ pc = "testGetBritEdgeInfo"
  /\ \E resp \in {HealthyApi(env, "GetBritEdgeInfo")} \cup FaultyApi(env, "GetBritEdgeInfo") :
       /\ Served(resp, HealthyApi(env, "GetBritEdgeInfo"), FaultyApi(env, "GetBritEdgeInfo"))
       /\ testGetBritEdgeInfo(resp, After(pc))
  /\ UNCHANGED <<returned, env>>

RunTestGetTestimonials ==
  /\ pc = "testGetTestimonials"
  /\ \E resp \in {HealthyApi(env, "GetTestimonials")} \cup FaultyApi(env, "GetTestimonials") :
       /\ Served(resp, HealthyApi(env, "GetTestimonials"), FaultyApi(env, "GetTestimonials"))
       /\ testGetTestimonials(resp, After(pc))
  /\ UNCHANGED <<returned, env>>

RunTestGetCustomers ==
  /\ pc = "testGetCustomers"
  /\ \E resp \in {HealthyApi(env, "GetCustomers")} \cup FaultyApi(env, "GetCustomers") :
       /\ Served(resp, HealthyApi(env, "GetCustomers"), FaultyApi(env, "GetCustomers"))
       /\ testGetCustomers(resp, After(pc))
  /\ UNCHANGED <<returned, env>>

RunTestJSONResponses ==
  /\ pc = "testJSONResponses"
  /\ \E resp \in {HealthyApi(env, apiEndpoints[idx])} \cup FaultyJson(env, apiEndpoints[idx]) :
       /\ Served(resp, HealthyApi(env, apiEndpoints[idx]), FaultyJson(env, apiEndpoints[idx]))
       /\ testJSONResponses(resp, After(pc))
  /\ UNCHANGED <<returned, env>>

RunTestSecurityHeaders ==
  /\ pc = "testSecurityHeaders"
  /\ \E resp \in {HealthyWebsite(env)} \cup FaultyHeaders(env) :
       /\ Served(resp, HealthyWebsite(env), FaultyHeaders(env))
       /\ testSecurityHeaders(resp, After(pc))
  /\ UNCHANGED <<returned, env>>

RunTestHTTPS ==
  /\ pc = "testHTTPS"
  /\ testHTTPS(After(pc))
  /\ UNCHANGED <<returned, faults, env>>

RunTestCORS ==
  /\ pc = "testCORS"
  /\ \E resp \in {HealthyApi(env, "GetBritEdgeInfo")} \cup FaultyCors(env) :
       /\ Served(resp, HealthyApi(env, "GetBritEdgeInfo"), FaultyCors(env))
       /\ testCORS(resp, After(pc))
  /\ UNCHANGED <<returned, env>>

PerfHealthy(e, i) ==
  IF i = 1 THEN HealthyWebsite(e) ELSE HealthyApi(e, apiEndpoints[i - 1])

RunTestResponseTimes ==
  /\ pc = "testResponseTimes"
  /\ \E resp \in {PerfHealthy(env, idx)} \cup FaultyPerf(env) :
       /\ Served(resp, PerfHealthy(env, idx), FaultyPerf(env))
       /\ testResponseTimes(resp, After(pc))
  /\ UNCHANGED <<returned, env>>

RunTestWebsiteNavigation ==
  /\ pc = "testWebsiteNavigation"
  /\ \E resp \in {HealthyWebsite(env)} \cup FaultyNavigation(env) :
       /\ Served(resp, HealthyWebsite(env), FaultyNavigation(env))
       /\ testWebsiteNavigation(resp, After(pc))
  /\ UNCHANGED <<returned, env>>

RunGenerateSummary ==
  /\ pc = "generateSummary"
  /\ generateSummary
  /\ pc' = After(pc)
  /\ UNCHANGED <<idx, validResponses, now, responses, faults, env>>

Next ==
  \/ RunAllTests
  \/ RunTestGetBritEdgeInfo
  \/ RunTestGetTestimonials
  \/ RunTestGetCustomers
  \/ RunTestJSONResponses
  \/ RunTestSecurityHeaders
  \/ RunTestHTTPS
  \/ RunTestCORS
  \/ RunTestResponseTimes
  \/ RunTestWebsiteNavigation
  \/ RunGenerateSummary

Spec == Init /\ [][Next]_vars

\* every await settles and the single thread of control keeps running
FairSpec == Spec /\ WF_vars(Next)

(***************************************************************************)
(* SpecSummary: a host calls logResult and generateSummary directly while  *)
(* the clock advances                                                      *)
(***************************************************************************)
LogNames == {"A", "B"}

CallLogResult ==
  /\ pc = "ready"
  /\ Len(results) < MaxLog
  /\ \E n \in LogNames, passed \in BOOLEAN :
       results' = logResult(results, n, passed, "m", now, JNull)
  /\ UNCHANGED <<pc, idx, validResponses, now, returned, responses, faults, env>>

CallGenerateSummary ==
  /\ pc = "ready"
  /\ generateSummary
  /\ UNCHANGED <<pc, idx, validResponses, now, responses, faults, env>>

Tick ==
  /\ now < MaxTime
  /\ now' = now + 1
  /\ UNCHANGED <<pc, results, idx, validResponses, returned, responses, faults, env>>

NextSummary == CallLogResult \/ CallGenerateSummary \/ Tick

SpecSummary == Init /\ [][NextSummary]_vars

(***************************************************************************)
(* Properties                                                              *)
(***************************************************************************)
Last(seq) == seq[Len(seq)]

TestNames ==
  <<"API: GetBritEdgeInfo", "API: GetTestimonials", "API: GetCustomers",
    "Functionality: JSON APIs",
    "Security: Headers", "Security: HTTPS", "Security: CORS",
    "Performance: Website", "Performance: GetBritEdgeInfo API",
    "Performance: GetTestimonials API", "Performance: GetCustomers API",
    "Functionality: Website">>

\* C1: every check routine records exactly one result per assertion group
\* on every path, so the log always holds the first results of the fixed
\* sequence, one per group, each PASS or FAIL, and a completed runAllTests
\* leaves exactly 12 entries, which is the total generateSummary reports.
C1_TwelveResults ==
  /\ Len(results) <= Len(TestNames)
  /\ \A i \in 1..Len(results) :
       /\ results[i].test = TestNames[i]
       /\ results[i].status \in {"PASS", "FAIL"}
  /\ pc = "done" =>
       /\ Len(results) = 12
       /\ \A i \in 1..Len(TestNames) :
            Cardinality({k \in 1..Len(results) : results[k].test = TestNames[i]}) = 1
       /\ returned[1].summary.total = 12

C1_Witness ==
  /\ pc = "done"
  /\ results[1].message = "Network error: " \o FetchError
  /\ results[5].message = "2/4 security headers correctly configured"
  /\ results[12].status = "PASS"

\* position of a control point in the fixed sequence of runAllTests
Position(point) ==
  CASE point = "ready" -> 0
    [] point = "testGetBritEdgeInfo" -> 1
    [] point = "testGetTestimonials" -> 2
    [] point = "testGetCustomers" -> 3
    [] point = "testJSONResponses" -> 4
    [] point = "testSecurityHeaders" -> 5
    [] point = "testHTTPS" -> 6
    [] point = "testCORS" -> 7
    [] point = "testResponseTimes" -> 8
    [] point = "testWebsiteNavigation" -> 9
    [] point = "generateSummary" -> 10
    [] point = "done" -> 11
    [] OTHER -> 99

\* C2: nothing is fatal: whatever requests fail, no error leaves a check,
\* control only ever moves to the next check of the fixed sequence, and a
\* run that has started eventually invokes generateSummary and completes.
C2_NothingFatal ==
  /\ [][pc' # pc => Position(pc') = Position(pc) + 1]_vars
  /\ (pc = "testGetBritEdgeInfo") ~> (pc = "done" /\ returned # <<>>)

C2_Witness ==
  /\ pc = "done"
  /\ returned # <<>>
  /\ faults = MaxFaults
  /\ results[1].message = "Network error: " \o ParseError
  /\ results[2].status = "FAIL"

\* the group a result's label names
LabelRank(testName) ==
  CASE testName \in {"API: GetBritEdgeInfo", "API: GetTestimonials", "API: GetCustomers"} -> 0
    [] testName \in {"Security: Headers", "Security: HTTPS", "Security: CORS"} -> 1
    [] testName \in {"Performance: Website", "Performance: GetBritEdgeInfo API",
                     "Performance: GetTestimonials API", "Performance: GetCustomers API"} -> 2
    [] testName \in {"Functionality: JSON APIs", "Functionality: Website"} -> 3

\* the group of runAllTests that records a result: testJSONResponses runs
\* in the API group
GroupRank(testName) ==
  IF testName = "Functionality: JSON APIs" THEN 0 ELSE LabelRank(testName)

\* the group of runAllTests that is executing
RunningGroup ==
  CASE pc \in {"ready", "testGetBritEdgeInfo", "testGetTestimonials", "testGetCustomers",
               "testJSONResponses"} -> 0
    [] pc \in {"testSecurityHeaders", "testHTTPS", "testCORS"} -> 1
    [] pc = "testResponseTimes" -> 2
    [] pc = "testWebsiteNavigation" -> 3
    [] pc \in {"generateSummary", "done"} -> 4

GroupSize == <<4, 3, 4, 1>>

RecordedBy(g) == Cardinality({i \in 1..Len(results) : GroupRank(results[i].test) = g})

\* C3 as stated: in the result log every 'API:' result precedes every
\* 'Security:' result, which precedes every 'Performance:' result, which
\* precedes every 'Functionality:' result.
C3_LogOrderedByLabel ==
  \A i, j \in 1..Len(results) :
    i < j => LabelRank(results[i].test) <= LabelRank(results[j].test)

\* C3 amended: the groups run in the order API, security, performance,
\* functionality, each complete before the next starts, generateSummary
\* runs after all of them, and in the log every result recorded by the API
\* group (the three 'API:' results and the 'Functionality: JSON APIs' result
\* of testJSONResponses) precedes every 'Security:' result, which precedes
\* every 'Performance:' result, which precedes 'Functionality: Website'.
C3_LogOrderedByGroup ==
  /\ \A i, j \in 1..Len(results) :
       i < j => GroupRank(results[i].test) <= GroupRank(results[j].test)
  /\ \A g \in 0..3 :
       /\ g < RunningGroup => RecordedBy(g) = GroupSize[g + 1]
       /\ g > RunningGroup => RecordedBy(g) = 0
  /\ \A i \in 1..Len(returned) : returned[i].logLen = 12

C3_Witness ==
  /\ pc = "done"
  /\ results[4].test = "Functionality: JSON APIs"
  /\ results[5].test = "Security: Headers"
  /\ results[8].test = "Performance: Website"
  /\ results[12].test = "Functionality: Website"

LogAt(call) ==
  SubSeq(results, 1, IF call.logLen < Len(results) THEN call.logLen ELSE Len(results))

CountStatus(log, status) == Cardinality({k \in 1..Len(log) : log[k].status = status})

\* successRate is passed/total*100 rounded to one decimal
RateIsRounded(s) ==
  \E tenths \in 0..1000 :
    /\ s.successRate = ToFixed1(tenths)
    /\ 2 * tenths * s.total - 2000 * s.passed <= s.total
    /\ 2000 * s.passed - 2 * tenths * s.total <= s.total

\* C4: for every result log generateSummary returns passed + failed = total
\* with passed and failed the numbers of PASS and FAIL entries and
\* successRate the percentage rounded to one decimal; on the empty log the
\* success rate is a defined value (0% or an explicit 'undefined').
C4_SummaryCounts ==
  \A i \in 1..Len(returned) :
    LET s == returned[i].summary
        log == LogAt(returned[i])
    IN /\ s.passed + s.failed = s.total
       /\ s.total = Len(log)
       /\ s.passed = CountStatus(log, "PASS")
       /\ s.failed = CountStatus(log, "FAIL")
       /\ IF s.total = 0
          THEN s.successRate \in {"0.0", "0", "undefined"}
          ELSE RateIsRounded(s)

\* the failed tests are listed in the order they were recorded
InInsertionOrder(listing, log) ==
  LET fails == {k \in 1..Len(log) : log[k].status = "FAIL"}
  IN /\ Len(listing) = Cardinality(fails)
     /\ \A k \in fails :
          listing[Cardinality({m \in fails : m <= k})] = FailedLine(log[k])

C5_SameLogSameSummary ==
  /\ \A i, j \in 1..Len(returned) :
       returned[i].logLen = returned[j].logLen =>
         /\ returned[i].summary.total = returned[j].summary.total
         /\ returned[i].summary.passed = returned[j].summary.passed
         /\ returned[i].summary.failed = returned[j].summary.failed
         /\ returned[i].summary.successRate = returned[j].summary.successRate
         /\ returned[i].listing = returned[j].listing
  /\ \A i \in 1..Len(returned) :
       /\ returned[i].logLen <= Len(results)
       /\ InInsertionOrder(returned[i].listing, LogAt(returned[i]))

\* C5: generateSummary only reads state: a call leaves the result log as it
\* is and makes no request, two calls on the same log return the same
\* total, passed, failed and successRate, and both list the failed tests in
\* insertion order.
C5_SummaryReadsOnly ==
  /\ []C5_SameLogSameSummary
  /\ [][Len(returned') > Len(returned) =>
          results' = results /\ responses' = responses /\ now' = now]_vars

C5_Witness ==
  /\ Len(returned) = 2
  /\ returned[1].logLen = returned[2].logLen
  /\ returned[1].summary.executionTime # returned[2].summary.executionTime
  /\ Len(returned[2].listing) = 2
  /\ returned[2].listing[1] # returned[2].listing[2]
  /\ returned[2].summary.passed > 0

\* the payload has the fields the check of this endpoint requires
HasRequiredFields(testName, p) ==
  /\ p.t = "obj"
  /\ CASE testName = "API: GetBritEdgeInfo" ->
            /\ {"company", "stats", "locations"} \subseteq DOMAIN p.o
            /\ p.o.company.t = "obj" /\ "name" \in DOMAIN p.o.company.o
            /\ p.o.stats.t = "obj" /\ "totalEmployees" \in DOMAIN p.o.stats.o
            /\ p.o.locations.t = "arr" /\ Len(p.o.locations.a) > 0
       [] testName = "API: GetTestimonials" ->
            /\ "testimonials" \in DOMAIN p.o
            /\ p.o.testimonials.t = "arr" /\ Len(p.o.testimonials.a) > 0
            /\ p.o.testimonials.a[1].t = "obj"
            /\ {"client", "rating"} \subseteq DOMAIN p.o.testimonials.a[1].o
       [] testName = "API: GetCustomers" ->
            /\ "customers" \in DOMAIN p.o
            /\ p.o.customers.t = "arr" /\ Len(p.o.customers.a) > 0
            /\ p.o.customers.a[1].t = "obj"
            /\ {"customerId", "companyName"} \subseteq DOMAIN p.o.customers.a[1].o

InvalidMessage(testName) ==
  CASE testName = "API: GetBritEdgeInfo" -> "Invalid response structure"
    [] testName = "API: GetTestimonials" -> "Invalid testimonials structure"
    [] testName = "API: GetCustomers" -> "Invalid customers structure"

\* C6: for every API endpoint check, a 200 response with well-formed JSON
\* that lacks a required field (a JSON null or a non-object included) is a
\* predicate failure, not an exception: one FAIL with the invalid-structure
\* message and the received payload as data; a thrown network or parse
\* error is one FAIL whose message embeds the error text.
C6_InvalidPayloadIsPredicateFailure ==
  (results # <<>> /\ Len(responses) = 1) =>
    LET e == Last(results)
        r == responses[1]
    IN /\ (r.fetch = "reject") =>
            e.status = "FAIL" /\ e.message = "Network error: " \o r.error
       /\ (r.fetch = "ok" /\ r.body.kind # "json") =>
            e.status = "FAIL" /\ e.message = "Network error: " \o ParseError
       /\ (r.fetch = "ok" /\ r.body.kind = "json" /\ r.status = 200
             /\ ~HasRequiredFields(e.test, r.body.value)) =>
            /\ e.status = "FAIL"
            /\ e.message = InvalidMessage(e.test)
            /\ e.data = r.body.value

ExactHeaders ==
  [n \in {"X-Frame-Options", "X-Content-Type-Options", "X-XSS-Protection"} |->
     CASE n = "X-Frame-Options" -> <<"DENY">>
       [] n = "X-Content-Type-Options" -> <<"nosniff">>
       [] n = "X-XSS-Protection" -> <<"1; mode=block">>]

\* k: the headers that match under their mode
MatchedHeaders(h) ==
  Cardinality({n \in DOMAIN ExactHeaders : n \in DOMAIN h /\ h[n] = ExactHeaders[n]})
    + (IF /\ "Strict-Transport-Security" \in DOMAIN h
          /\ \E i \in DOMAIN h["Strict-Transport-Security"] :
               h["Strict-Transport-Security"][i] = "max-age="
       THEN 1 ELSE 0)

C7_HeadersCounted ==
  (results # <<>> /\ Last(results).test = "Security: Headers" /\ responses[1].fetch = "ok") =>
    LET e == Last(results)
        k == MatchedHeaders(responses[1].headers)
    IN /\ e.message = ToString(k) \o "/4 security headers correctly configured"
       /\ (e.status = "PASS") <=> (k = 4)
       /\ (k = 2) => (e.status = "FAIL")

\* C7: testSecurityHeaders, for every assignment of values or absence to
\* the four headers, records exactly one result whose message reports k/4,
\* k the number of headers matching under their mode (equality for the
\* first three, substring 'max-age=' for Strict-Transport-Security), PASS
\* exactly when k = 4.
C7_HeaderCount ==
  /\ []C7_HeadersCounted
  /\ [][Len(results') = Len(results) + 1]_vars

C7_Witness ==
  /\ results # <<>>
  /\ Last(results).test = "Security: Headers"
  /\ Last(results).message = "2/4 security headers correctly configured"
  /\ Last(results).status = "FAIL"
  /\ responses[1].fetch = "ok"
  /\ "X-Frame-Options" \in DOMAIN responses[1].headers
  /\ responses[1].headers["X-Frame-Options"] = <<"DENY", ", SAMEORIGIN">>

\* the endpoint returned a parseable non-null object
ParseableObject(r) ==
  /\ r.fetch = "ok"
  /\ r.body.kind = "json"
  /\ r.body.value.t \in {"obj", "arr"}

C8_CountReported ==
  (pc = "ready" /\ results # <<>>) =>
    /\ Len(responses) = 3
    /\ LET e == Last(results)
           count == Cardinality({i \in 1..3 : ParseableObject(responses[i])})
       IN /\ e.test = "Functionality: JSON APIs"
          /\ e.message = ToString(count) \o "/3 APIs return valid JSON"
          /\ (e.status = "PASS") <=> (count = 3)

\* C8: testJSONResponses visits all three endpoints whatever fails: an
\* endpoint's error records nothing and does not end the loop, the count is
\* the number of endpoints that returned a parseable non-null object, and
\* exactly one result is recorded after the loop, PASS exactly when the
\* count is 3.
C8_AllEndpointsVisited ==
  /\ []C8_CountReported
  /\ [][pc = "testJSONResponses" =>
          IF idx < 3
          THEN results' = results /\ pc' = pc /\ idx' = idx + 1
          ELSE Len(results') = Len(results) + 1 /\ pc' = "ready"]_vars

C8_Witness ==
  /\ pc = "ready"
  /\ results # <<>>
  /\ Len(responses) = 3
  /\ responses[1].fetch = "ok" /\ responses[1].body.kind = "text"
  /\ ParseableObject(responses[2])
  /\ ParseableObject(responses[3])
  /\ Last(results).message = "2/3 APIs return valid JSON"
  /\ Last(results).status = "FAIL"

\* C9: testResponseTimes records one result per endpoint, in list order;
\* an endpoint's result is PASS exactly when its own request completed
\* without error in less than 2000 ms (2500 ms is FAIL), whatever the
\* other endpoints of the run did; the loop measures all four.
C9_PerEndpointResult ==
  /\ Len(responses) <= Len(results)
  /\ \A i \in 1..Len(responses) :
       LET e == results[Len(results) - Len(responses) + i]
           r == responses[i]
       IN /\ e.test = "Performance: " \o endpoints[i]
          /\ (e.status = "PASS") <=> (r.fetch = "ok" /\ r.delay < 2000)
          /\ (r.fetch = "ok" /\ r.delay = 2500) => e.status = "FAIL"
  /\ pc = "ready" => Len(responses) \in {0, 4} /\ Len(results) % 4 = 0
  /\ pc = "testResponseTimes" /\ idx > 1 => Len(responses) = idx - 1

C9_Witness ==
  /\ pc = "ready"
  /\ Len(responses) = 4
  /\ responses[1].fetch = "ok" /\ responses[1].delay = 1999
  /\ responses[2].fetch = "ok" /\ responses[2].delay = 2500
  /\ responses[3].fetch = "reject"
  /\ responses[4].fetch = "ok" /\ responses[4].delay = 1999
  /\ results[Len(results) - 3].status = "PASS"
  /\ results[Len(results) - 2].status = "FAIL"
  /\ results[Len(results) - 1].status = "FAIL"
  /\ results[Len(results)].status = "PASS"

====
